---- MODULE Spec2Model ----
(***************************************************************************)
(* A model of the iterative calibration engine of src/src/qrake.py:        *)
(* get_mask, rake (Newton-Raphson raking), gec (convex calibration through *)
(* an external solver) and the outer loop qrake.                           *)
(*                                                                         *)
(* Numbers.  The program computes in IEEE-754 binary64.  The model keeps   *)
(* what the code's branches depend on -- rounding to a grid, overflow to   *)
(* +/-Inf, underflow to 0, NaN and its unordered comparisons -- in a small *)
(* format: a finite number is an integer count of units of 1/Scale with    *)
(* magnitude at most FMax, every operation rounds its exact result to the  *)
(* nearest unit, and a result beyond FMax is an infinity.                  *)
(*                                                                         *)
(* Indices.  Python indexes from 0, sequences here from 1: area j of the   *)
(* source is area j+1 of the model, and likewise for records and columns.  *)
(***************************************************************************)
EXTENDS Integers, Sequences, FiniteSets, TLC

(***************************************************************************)
(* The number format                                                       *)
(***************************************************************************)
Scale == 2000
MaxFloat == 500
FMax == MaxFloat * Scale
PInf == FMax + 1
NInf == 0 - (FMax + 1)
NaN == FMax + 2

One == Scale
Hundred == 100 * Scale

IsNan(a) == a = NaN
IsInf(a) == a = PInf \/ a = NInf
IsFinite(a) == a >= 0 - FMax /\ a <= FMax

AbsInt(i) == IF i < 0 THEN 0 - i ELSE i
SignInt(i) == IF i < 0 THEN 0 - 1 ELSE IF i > 0 THEN 1 ELSE 0

\* p / q rounded to the nearest integer, halves away from zero (p >= 0, q > 0)
RDiv(p, q) == (p \div q) + (IF 2 * (p % q) >= q THEN 1 ELSE 0)

\* an exact integer result brought into the format
Fit(i) == IF i > FMax THEN PInf ELSE IF i < 0 - FMax THEN NInf ELSE i

Neg(a) == IF IsNan(a) THEN NaN ELSE 0 - a

Abs(a) == IF IsNan(a) THEN NaN ELSE AbsInt(a)

Add(a, b) ==
    IF IsNan(a) \/ IsNan(b) THEN NaN
    ELSE IF IsInf(a) /\ IsInf(b) THEN (IF a = b THEN a ELSE NaN)
    ELSE IF IsInf(a) THEN a
    ELSE IF IsInf(b) THEN b
    ELSE Fit(a + b)

Sub(a, b) == Add(a, Neg(b))

\* a * b / Scale rounded to the nearest unit, for a, b >= 0; the whole units of
\* a are multiplied apart so that no intermediate exceeds 32 bits
MulAbs(a, b) == (a \div Scale) * b + RDiv((a % Scale) * b, Scale)

Mul(a, b) ==
    IF IsNan(a) \/ IsNan(b) THEN NaN
    ELSE IF IsInf(a) \/ IsInf(b)
         THEN (IF a = 0 \/ b = 0 THEN NaN
               ELSE IF SignInt(a) * SignInt(b) > 0 THEN PInf ELSE NInf)
    ELSE Fit(SignInt(a) * SignInt(b) * MulAbs(AbsInt(a), AbsInt(b)))

Div(a, b) ==
    IF IsNan(a) \/ IsNan(b) THEN NaN
    ELSE IF IsInf(a)
         THEN (IF IsInf(b) THEN NaN
               ELSE IF (a > 0) = (b >= 0) THEN PInf ELSE NInf)
    ELSE IF IsInf(b) THEN 0
    ELSE IF b = 0
         THEN (IF a = 0 THEN NaN ELSE IF a > 0 THEN PInf ELSE NInf)
    ELSE Fit(SignInt(a) * SignInt(b) * RDiv(AbsInt(a) * Scale, AbsInt(b)))

\* comparisons: every ordered comparison with a NaN is false
Gt(a, b) == ~IsNan(a) /\ ~IsNan(b) /\ a > b
Lt(a, b) == ~IsNan(a) /\ ~IsNan(b) /\ a < b
Le(a, b) == ~IsNan(a) /\ ~IsNan(b) /\ a <= b

(***************************************************************************)
(* numpy helpers on vectors (sequences) and matrices (sequences of rows)   *)
(***************************************************************************)
\* a function on 1..n as an explicit tuple, each entry computed once
Vec(f) == f \o <<>>

RECURSIVE SumTo(_, _)
SumTo(s, i) == IF i = 0 THEN 0 ELSE Add(SumTo(s, i - 1), s[i])

\* ndarray.sum
Sum(s) == SumTo(s, Len(s))

\* np.dot of two vectors
Dot(u, v) == Sum([i \in 1..Len(u) |-> Mul(u[i], v[i])])

RECURSIVE MaxTo(_, _)
MaxTo(s, i) == IF i = 1 THEN s[1]
               ELSE IF s[i] > MaxTo(s, i - 1) THEN s[i] ELSE MaxTo(s, i - 1)

\* ndarray.max of a non-empty array: NaN as soon as one entry is NaN
MaxSeq(s) == IF \E i \in 1..Len(s) : IsNan(s[i]) THEN NaN ELSE MaxTo(s, Len(s))

AnyNan(s) == \E i \in 1..Len(s) : IsNan(s[i])
AnyInf(s) == \E i \in 1..Len(s) : IsInf(s[i])

Col(M, c) == Vec([i \in 1..Len(M) |-> M[i][c]])

\* the columns of a row (or the entries of a vector) picked by a boolean row
RECURSIVE PickTo(_, _, _)
PickTo(row, keep, c) ==
    IF c = 0 THEN <<>>
    ELSE IF keep[c] THEN Append(PickTo(row, keep, c - 1), row[c])
    ELSE PickTo(row, keep, c - 1)

Pick(row, keep) == PickTo(row, keep, Len(row))

(***************************************************************************)
(* np.exp: e^r by its Taylor polynomial on the fractional part r of the    *)
(* argument, then one multiplication or division by e for each whole unit  *)
(* of the integer part; overflow gives Inf and underflow 0.                *)
(***************************************************************************)
EulerE == 5437

ExpFrac(r) ==
    LET h6 == One + RDiv(r, 6)
        h5 == One + RDiv(RDiv(r * h6, Scale), 5)
        h4 == One + RDiv(RDiv(r * h5, Scale), 4)
        h3 == One + RDiv(RDiv(r * h4, Scale), 3)
        h2 == One + RDiv(RDiv(r * h3, Scale), 2)
    IN  One + RDiv(r * h2, Scale)

RECURSIVE ExpScale(_, _)
ExpScale(x, q) ==
    IF q = 0 \/ x = 0 \/ IsInf(x) THEN x
    ELSE IF q > 0 THEN ExpScale(Mul(x, EulerE), q - 1)
    ELSE ExpScale(Div(x, EulerE), q + 1)

Exp(a) ==
    IF IsNan(a) THEN NaN
    ELSE IF a = PInf THEN PInf
    ELSE IF a = NInf THEN 0
    ELSE ExpScale(ExpFrac(a % Scale), a \div Scale)

(***************************************************************************)
(* rake: Newton-Raphson raking on the Lagrange multipliers lam             *)
(***************************************************************************)
max_iter == 10

\* np.max(...) < EPS1 with EPS1 = 1e-8.  In float64 EPS1 lies far above the
\* rounding error of the quotient (1e-16), so that an iterate as close to the
\* solution as the arithmetic allows passes the check, and far below the
\* tolerances of qrake.  In this format the rounding error of the quotient is
\* one unit: a value passes the check iff it is at most one unit.
BelowEPS1(a) == ~IsNan(a) /\ a <= 1

Zeros(k) == Vec([c \in 1..k |-> 0])
Ones(n) == Vec([i \in 1..n |-> One])

\* w1 = d * np.exp(np.dot(Xs, lam) * q), with q = 1
RakeWeights(Xs, d, lam) ==
    Vec([i \in 1..Len(d) |-> Mul(d[i], Exp(Mul(Dot(Xs[i], lam), One)))])

\* np.dot(Xs.T, w1) and np.inner(Xs.T, w1.T): one entry per column of Xs
XtW(Xs, w, k) == Vec([c \in 1..k |-> Dot(Col(Xs, c), w)])

\* phiprim = np.dot((Xs * w1).T, Xs)
PhiPrim(Xs, w, k) ==
    Vec([a \in 1..k |-> Vec([b \in 1..k |->
        Sum([i \in 1..Len(w) |-> Mul(Mul(Xs[i][a], w[i]), Xs[i][b])])])])

MatFinite(A) == \A a \in 1..Len(A) : \A b \in 1..Len(A[a]) : IsFinite(A[a][b])

\* np.linalg.pinv(A, rcond=1e-15) of a finite k x k matrix, k <= 2: singular
\* values whose ratio to the largest is below the resolution of the format are
\* dropped.  A 1 x 1 matrix inverts its entry unless it is 0; a 2 x 2 matrix of
\* full rank is inverted through its determinant, one of rank 1 has the
\* pseudo-inverse A^T / |A|_F^2, and the zero matrix has the zero matrix.
Pinv(A) ==
    IF Len(A) = 0 THEN <<>>
    ELSE IF Len(A) = 1
    THEN << << IF A[1][1] = 0 THEN 0 ELSE Div(One, A[1][1]) >> >>
    ELSE LET det   == Sub(Mul(A[1][1], A[2][2]), Mul(A[1][2], A[2][1]))
             frob2 == Add(Add(Mul(A[1][1], A[1][1]), Mul(A[1][2], A[1][2])),
                          Add(Mul(A[2][1], A[2][1]), Mul(A[2][2], A[2][2])))
         IN  IF frob2 = 0 THEN << <<0, 0>>, <<0, 0>> >>
             ELSE IF IsFinite(det) /\ IsFinite(frob2) /\ Div(Abs(det), frob2) = 0
             THEN << << Div(A[1][1], frob2), Div(A[2][1], frob2) >>,
                     << Div(A[1][2], frob2), Div(A[2][2], frob2) >> >>
             ELSE << << Div(A[2][2], det), Div(Neg(A[1][2]), det) >>,
                     << Div(Neg(A[2][1]), det), Div(A[1][1], det) >> >>

\* (faulty variant of BadWeights: the np.isinf test left out)
BadWeightsNanOnly(w) == AnyNan(w)

\* np.isnan(w1).any() or np.isinf(w1).any()
BadWeights(w) == AnyNan(w) \/ AnyInf(w)

\* What a call of gfn leaves behind: kind says whether it returned a vector,
\* returned None or raised; g is the vector; w1 is rake's weight vector when it
\* stopped and stop says where it stopped ("" before any call, "converged": the break of the
\* convergence check, "exhausted": the range ran out, "nan": the break of the
\* NaN/Inf check, "error": an exception; "solver" for gec).
Ret(kind, gv, w, stop) == [kind |-> kind, g |-> gv, w1 |-> w, stop |-> stop]

\* (faulty variant of WOverD: exp(Xs.lam) itself where d is zero, not 0/0)
WOverDZeroSafe(w, d) ==
    Vec([r \in 1..Len(d) |-> IF d[r] = 0 THEN One ELSE Div(w[r], d[r])])

\* g = w1 / d
WOverD(w, d) == Vec([r \in 1..Len(d) |-> Div(w[r], d[r])])

\* the body of "for i in range(max_iter)", entered with the values of lam, w1
\* and g left by the iterations before i
RECURSIVE RakeLoop(_, _, _, _, _, _, _)
RakeLoop(Xs, d, total, lam, w1, gv, i) ==
    IF i >= max_iter THEN Ret("vector", gv, w1, "exhausted")
    ELSE
    LET k       == Len(total)
        phi     == Vec([c \in 1..k |-> Sub(XtW(Xs, w1, k)[c], total[c])])
        phiprim == PhiPrim(Xs, w1, k)
    IN  IF ~MatFinite(phiprim)
        THEN Ret("raise", <<>>, w1, "error")   \* pinv: LinAlgError from the SVD
        ELSE
        LET pinv == Pinv(phiprim)
            step == Vec([c \in 1..k |-> Dot(pinv[c], phi)])
            lam2 == Vec([c \in 1..k |-> Sub(lam[c], step[c])])
            w2   == RakeWeights(Xs, d, lam2)
            tr   == XtW(Xs, w2, k)
            err  == Vec([c \in 1..k |-> Div(Abs(Sub(tr[c], total[c])), total[c])])
        IN  IF BadWeights(w2) THEN Ret("None", <<>>, w2, "nan")
            ELSE IF k = 0
            THEN Ret("raise", <<>>, w2, "error")  \* np.max of an empty array
            ELSE IF BelowEPS1(MaxSeq(err)) THEN Ret("vector", gv, w2, "converged")
            ELSE RakeLoop(Xs, d, total, lam2, w2,
                          IF i = max_iter THEN <<NaN>>
                          ELSE WOverD(w2, d),
                          i + 1)

rake(Xs, d, total) ==
    RakeLoop(Xs, d, total, Zeros(Len(total)),
             RakeWeights(Xs, d, Zeros(Len(total))), Ones(Len(d)), 0)

(***************************************************************************)
(* gec: calibration through the external convex solver                     *)
(***************************************************************************)
SMALL_POSITIVE == 1

\* ec.maybe_exact_calibrate is an external collaborator: the mean-producing
\* weights it may hand back for n records are drawn from a small set holding
\* positive weights, weights with zeros (QUADRATIC objective) and a NaN
SolverWeights(n) ==
    { [i \in 1..n |-> IF i = 1 THEN One \div 4 ELSE (3 * One) \div (4 * (n - 1))],
      [i \in 1..n |-> IF i = 1 THEN One ELSE 0],
      [i \in 1..n |-> IF i = 1 THEN NaN ELSE One \div n] }

\* the target means handed to the solver
gec_tmeans(d, total) ==
    LET whj == [i \in 1..Len(d) |-> IF d[i] = 0 THEN SMALL_POSITIVE ELSE d[i]]
    IN  [c \in 1..Len(total) |-> Div(total[c], Sum(whj))]

\* (faulty variant of gec: line 160 left out, the zeros of wh stay)
gecKeepsZeros(Xs, d, total, ompw) ==
    LET pop == Sum(d)
    IN  Ret("vector", [i \in 1..Len(d) |-> Div(Mul(ompw[i], pop), d[i])],
            <<>>, "solver")
        @@ [call |-> [target_covariates |-> [c \in 1..Len(total) |-> Div(total[c], pop)],
                      baseline_weights |-> d,
                      autoscale |-> TRUE]]

\* what gec leaves behind: the vector it returns and, in the field call, the
\* target means, the baseline weights and the autoscale option it handed to
\* the solver
gec(Xs, d, total, ompw) ==
    LET whj == [i \in 1..Len(d) |-> IF d[i] = 0 THEN SMALL_POSITIVE ELSE d[i]]
        pop == Sum(whj)
    IN  Ret("vector", [i \in 1..Len(d) |-> Div(Mul(ompw[i], pop), whj[i])],
            <<>>, "solver")
        @@ [call |-> [target_covariates |-> gec_tmeans(d, total),
                      baseline_weights |-> whj,
                      autoscale |-> TRUE]]

(***************************************************************************)
(* get_mask                                                                *)
(***************************************************************************)
\* (faulty variant of DropCols: only the first entry of cols is used, a one-element
\* sequence taken for its element)
DropColsFirstOnly(maskrow, cols, i) ==
    IF i = 0 THEN maskrow ELSE [maskrow EXCEPT ![cols[1]] = FALSE]

\* mask[row, cols] = False for the first i entries of cols
RECURSIVE DropCols(_, _, _)
DropCols(maskrow, cols, i) ==
    IF i = 0 THEN maskrow
    ELSE [DropCols(maskrow, cols, i - 1) EXCEPT ![cols[i]] = FALSE]

\* for row, cols in drops.items()
RECURSIVE DropItems(_, _, _)
DropItems(msk, items, rows) ==
    IF rows = {} THEN msk
    ELSE LET row == CHOOSE r \in rows : \A r2 \in rows : r <= r2
         IN  DropItems([msk EXCEPT ![row] = DropCols(msk[row], items[row], Len(items[row]))],
                       items, rows \ {row})

\* m, k: targets.shape; drops: [isNone, items], items a function from rows to
\* sequences of columns
get_mask(m, k, drp) ==
    LET allTrue == [a \in 1..m |-> [c \in 1..k |-> TRUE]]
    IN  IF drp.isNone THEN allTrue
        ELSE DropItems(allTrue, drp.items, DOMAIN drp.items)

(***************************************************************************)
(* qrake: the outer loop                                                   *)
(***************************************************************************)
VARIABLES
    Q0,                  \* the caller's starting matrix (argument Q)
    wh,                  \* national weights
    xmat,                \* characteristics, n x k
    targets,             \* targets, m x k
    drops,               \* [isNone, items]
    method,              \* "raking" or "raking-ec"
    maxiter,
    Q,                   \* qrake's working copy of Q
    mask,
    iter,
    j,                   \* the area the for loop is at
    d,                   \* the d handed to gfn for the last area calibrated
    g,                   \* what that call of gfn left behind
    abswtdiff,
    max_weight_absdiff,
    abspctdiff,          \* <<>> while the name is unbound
    max_targ_abspctdiff,
    exceeded,            \* 'Maximum number of iterations exceeded.' was printed
    problem,             \* the attributes of a Problem object (<<>>: none made)
    hessp,               \* the arguments and the result of a call of hesspfn
    pc

vars == <<Q0, wh, xmat, targets, drops, method, maxiter, Q, mask, iter, j, d, g,
          abswtdiff, max_weight_absdiff, abspctdiff, max_targ_abspctdiff,
          exceeded, problem, hessp, pc>>

inputs == <<Q0, wh, xmat, targets, drops, method, maxiter, problem, hessp>>

TOL_WTDIFF == 1
TOL_TARGPCTDIFF == Scale \div 10

\* max_weight_absdiff = max_targ_abspctdiff = 1e9 before the first sweep: the
\* largest number of the format
InitialDiff == FMax

NRec == Len(wh)          \* n
NArea == Len(targets)    \* m
NChar == Len(targets[1]) \* k

\* xmat_wh = xmat * wh
xmat_wh == Vec([i \in 1..NRec |-> Vec([c \in 1..NChar |-> Mul(xmat[i][c], wh[i])])])

\* the while condition of the sweep loop
LoopTest(mwa, mta, it) ==
    (Gt(mwa, TOL_WTDIFF) \/ Gt(mta, TOL_TARGPCTDIFF)) /\ it <= maxiter

\* lines 225-288: set-up and the first test of the while condition
Start ==
    /\ pc = "start"
    /\ mask' = get_mask(NArea, NChar, drops)
    /\ Q' = Q0
    /\ iter' = 1
    /\ max_weight_absdiff' = InitialDiff
    /\ max_targ_abspctdiff' = InitialDiff
    /\ j' = 1
    /\ pc' = IF LoopTest(InitialDiff, InitialDiff, 1) THEN "areas" ELSE "post"
    /\ UNCHANGED <<inputs, d, g, abswtdiff, abspctdiff, exceeded>>

\* (faulty variant of NeedsIdentity: the np.isnan and np.isinf tests left out)
NeedsIdentityZeroOnly(gv) == (\E i \in 1..Len(gv) : gv[i] # 0) = FALSE

\* np.isnan(g).any() or np.isinf(g).any() or g.any() == 0
NeedsIdentity(gv) ==
    AnyNan(gv) \/ AnyInf(gv) \/ ((\E i \in 1..Len(gv) : gv[i] # 0) = FALSE)

\* (faulty variant of WritesThrough: without line 272 the local Q is the
\* caller's array until line 321 binds the name to a new one)
WritesThroughFirstSweep == iter = 1

\* the local name Q refers to the caller's array, so that the assignment to
\* Q[:, j] writes into it: never, line 272 has bound Q to a copy
WritesThrough == FALSE

\* lines 298-306 for area j, given what gfn returned
ApplyArea(ret) ==
    /\ g' = ret
    /\ d' = Col(Q, j)
    /\ IF ret.kind # "vector"
       THEN \* an exception of gfn, or np.isnan(None): TypeError
            /\ pc' = "raised"
            /\ UNCHANGED <<Q, j>>
       ELSE LET gv == IF NeedsIdentity(ret.g) THEN Ones(Len(ret.g)) ELSE ret.g
            IN  /\ Q' = [i \in 1..NRec |->
                            [Q[i] EXCEPT ![j] = Mul(Q[i][j], gv[i])]]
                /\ IF j < NArea
                   THEN j' = j + 1 /\ pc' = "areas"
                   ELSE j' = j /\ pc' = "endsweep"
    /\ Q0' = IF WritesThrough THEN Q' ELSE Q0
    /\ UNCHANGED <<wh, xmat, targets, drops, method, maxiter, problem, hessp, mask,
                   iter, abswtdiff, max_weight_absdiff, abspctdiff,
                   max_targ_abspctdiff, exceeded>>

AreaXs == Vec([i \in 1..NRec |-> Pick(xmat_wh[i], mask[j])])
\* (faulty variant of AreaD: the shares of area j taken from the rows of Q
\* scaled to sum to 1, which reads every column of Q)
AreaDOfScaledRows == Vec([i \in 1..NRec |-> Div(Q[i][j], Sum(Q[i]))])

AreaD == Col(Q, j)
AreaTotal == Pick(targets[j], mask[j])

\* one pass of "for j in range(m)" with gfn = rake
CalibrateAreaRake ==
    /\ pc = "areas"
    /\ method = "raking"
    /\ ApplyArea(rake(AreaXs, AreaD, AreaTotal))

\* one pass of "for j in range(m)" with gfn = gec
CalibrateAreaGec ==
    /\ pc = "areas"
    /\ method = "raking-ec"
    /\ \E ompw \in SolverWeights(NRec) :
          ApplyArea(gec(AreaXs, AreaD, AreaTotal, ompw))

\* the entries of a matrix at the True cells of the mask, row by row
RECURSIVE MaskedTo(_, _, _)
MaskedTo(A, msk, a) ==
    IF a = 0 THEN <<>> ELSE MaskedTo(A, msk, a - 1) \o Pick(A[a], msk[a])

\* (faulty variant of Masked: abspctdiff.max() over every cell, as in
\* qrake_bak20201011)
MaskedAll(A, msk) == MaskedTo(A, [a \in 1..Len(A) |-> [c \in 1..Len(A[a]) |-> TRUE]], Len(A))

Masked(A, msk) == MaskedTo(A, msk, Len(A))

RowSums(M) == Vec([i \in 1..Len(M) |-> Sum(M[i])])

\* (faulty variant of Renormalize: line 321 left out)
NotRenormalized(M) == M

\* Q / Q.sum(axis=1)[:, None]
Renormalize(M) ==
    [i \in 1..Len(M) |-> [a \in 1..Len(M[i]) |-> Div(M[i][a], Sum(M[i]))]]

\* whs, diff and abspctdiff of lines 324-326 for a (renormalized) Q and a
\* matrix T of targets
AbsPctDiffFor(M, T) ==
    LET whs == [i \in 1..NRec |-> [a \in 1..NArea |-> Mul(M[i][a], wh[i])]]
        diff == [a \in 1..NArea |-> [c \in 1..NChar |->
                    Sub(Dot(Col(whs, a), Col(xmat, c)), T[a][c])]]
    IN  [a \in 1..NArea |-> [c \in 1..NChar |->
            Abs(Mul(Div(diff[a][c], T[a][c]), Hundred))]]

\* abspctdiff of lines 324-326 for a (renormalized) Q
AbsPctDiff(M) == AbsPctDiffFor(M, targets)

\* lines 308-334 and the next test of the while condition
EndSweep ==
    /\ pc = "endsweep"
    /\ LET awd == [i \in 1..NRec |-> Abs(Sub(RowSums(Q)[i], One))]
           mwa == IF AnyInf(awd) THEN TOL_WTDIFF ELSE MaxSeq(awd)
           Qn  == Renormalize(Q)
           apd == AbsPctDiff(Qn)
       IN  /\ abswtdiff' = awd
           /\ max_weight_absdiff' = mwa
           /\ Q' = Qn
           /\ abspctdiff' = apd
           /\ IF Masked(apd, mask) = <<>>
              THEN \* abspctdiff[mask].max() of an empty selection: ValueError
                   /\ pc' = "raised"
                   /\ UNCHANGED <<max_targ_abspctdiff, iter, j>>
              ELSE /\ max_targ_abspctdiff' = MaxSeq(Masked(apd, mask))
                   /\ iter' = iter + 1
                   /\ j' = 1
                   /\ pc' = IF LoopTest(mwa, MaxSeq(Masked(apd, mask)), iter + 1)
                            THEN "areas" ELSE "post"
    /\ UNCHANGED <<inputs, mask, d, g, exceeded>>

\* lines 337-369
PostProcess ==
    /\ pc = "post"
    /\ abswtdiff' = [i \in 1..NRec |-> Abs(Sub(RowSums(Q)[i], One))]
    /\ max_weight_absdiff' = MaxSeq(abswtdiff')
    /\ exceeded' = (iter > maxiter)
    /\ pc' = IF abspctdiff = <<>>
             THEN "raised"      \* abspctdiff.max(): the name was never bound
             ELSE "returned"
    /\ UNCHANGED <<inputs, Q, mask, iter, j, d, g, abspctdiff,
                   max_targ_abspctdiff>>

(***************************************************************************)
(* The calls explored: two records, two areas, two characteristics         *)
(***************************************************************************)
MaxIter == 3

Half == One \div 2
Quarter == One \div 4

WhSet == { <<2 * One, 2 * One>> }

\* two independent characteristics; a second characteristic that is 0 for
\* every record
XmatSet == { << <<One, One>>, <<One, 2 * One>> >>,
             << <<One, 0>>, <<One, 0>> >> }

\* the exact weighted sums of the shares <<1/2, 1/2>>, <<1/4, 3/4>> under the
\* first xmat; those of uniform shares under the second xmat (its second
\* column has target 0); and a first target far beyond what any weights reach
TargetsSet == { << <<3 * Half, 2 * One>>, <<5 * Half, 4 * One>> >>,
                << <<2 * One, 0>>, <<2 * One, 0>> >>,
                << <<400 * One, 2 * One>>, <<5 * Half, 4 * One>> >> }

\* uniform shares; the shares the first targets were built from; shares with a
\* zero entry; a start that is not normalized: a first record with huge
\* entries and a second record with no shares
QSet == { << <<Half, Half>>, <<Half, Half>> >>,
          << <<Half, Half>>, <<Quarter, 3 * Quarter>> >>,
          << <<One, 0>>, <<Half, Half>> >>,
          << <<300 * One, 300 * One>>, <<0, 0>> >> }

NoDrops == [isNone |-> TRUE, items |-> <<>>]
Drops(items) == [isNone |-> FALSE, items |-> items]

DropsSet == { NoDrops,
              Drops(<<>>),
              Drops(1 :> <<2>>),
              Drops(1 :> <<1>>),
              Drops((1 :> <<2>>) @@ (2 :> <<2>>)),
              Drops((1 :> <<>>) @@ (2 :> <<1>>)),
              Drops(1 :> <<1, 2>>),
              Drops((1 :> <<2, 1>>) @@ (2 :> <<1, 2>>)) }

InitLocals ==
    /\ Q = <<>>
    /\ mask = <<>>
    /\ iter = 0
    /\ j = 0
    /\ d = <<>>
    /\ g = Ret("", <<>>, <<>>, "")
    /\ abswtdiff = <<>>
    /\ max_weight_absdiff = 0
    /\ abspctdiff = <<>>
    /\ max_targ_abspctdiff = 0
    /\ exceeded = FALSE
    /\ problem = <<>>
    /\ hessp = <<>>
    /\ pc = "start"

Init ==
    /\ wh \in WhSet
    /\ xmat \in XmatSet
    /\ targets \in TargetsSet
    /\ Q0 \in QSet
    /\ maxiter \in 0..MaxIter
    /\ \/ method = "raking" /\ drops \in DropsSet
       \/ /\ method = "raking-ec"
          /\ drops \in {NoDrops, Drops(1 :> <<2>>)}
          /\ xmat = << <<One, One>>, <<One, 2 * One>> >>
          /\ targets = << <<3 * Half, 2 * One>>, <<5 * Half, 4 * One>> >>
    /\ InitLocals

Next ==
    \/ Start
    \/ CalibrateAreaRake
    \/ CalibrateAreaGec
    \/ EndSweep
    \/ PostProcess

Spec == Init /\ [][Next]_vars

(***************************************************************************)
(* Properties                                                              *)
(***************************************************************************)
\* a sweep has just been completed: Q is the renormalized matrix and the
\* metrics are those of that sweep
SweepDone == iter > 1 /\ (pc = "post" \/ (pc = "areas" /\ j = 1))

\* the caller's starting matrix is a matrix of shares: entries in [0, 1], rows
\* summing to 1
ProperStart ==
    \A i \in 1..NRec : /\ Sum(Q0[i]) = One
                       /\ \A a \in 1..NArea : Q0[i][a] >= 0 /\ Q0[i][a] <= One

WithinTol ==
    Le(max_weight_absdiff, TOL_WTDIFF) /\ Le(max_targ_abspctdiff, TOL_TARGPCTDIFF)

\* C1 (as claimed): after every completed sweep every row of Q sums to 1, up to
\* the rounding of the renormalization (one unit per area), whatever the
\* adjustment factors of the sweep were -- here even for proper starting shares
C1_RowSumsOneAfterSweep ==
    (SweepDone /\ ProperStart) =>
        \A i \in 1..NRec : Le(Abs(Sub(Sum(Q[i]), One)), NArea)

\* C2 (as claimed): the sweep loop is left before the cap is passed exactly when
\* both metrics of the sweep are within tolerance (max_weight_absdiff <= 0.0005
\* and max_targ_abspctdiff <= 0.1), and another sweep follows when a metric
\* exceeds its tolerance and iter has not passed maxiter
C2_ConvergedIffWithinTol ==
    SweepDone =>
        /\ (pc = "post" /\ iter <= maxiter) => WithinTol
        /\ WithinTol => pc = "post"
        /\ (~WithinTol /\ iter <= maxiter /\ ~IsNan(max_weight_absdiff)
              /\ ~IsNan(max_targ_abspctdiff)) => pc = "areas"

\* C3 (as claimed): for every maxiter at most maxiter sweeps are made (iter
\* starts at 1 and grows by 1 per sweep) and, the cap exceeded, that is only
\* reported: no error is raised and Q is returned
C3_CapOnlyReported ==
    /\ (pc # "start") => (iter >= 1 /\ iter - 1 <= maxiter)
    /\ exceeded => pc = "returned"

\* C4: when the g returned for area j holds a NaN or an infinite entry, the
\* step leaves Q as it was (identity adjustment), raises nothing and moves on to
\* the next area or to the end of the sweep; every sweep starts again at the
\* first area and goes through the areas one by one, so area j comes again
C4_BadGIsIdentity ==
    [][ /\ (pc = "areas" /\ g'.kind = "vector" /\ (AnyNan(g'.g) \/ AnyInf(g'.g)))
            => /\ Q' = Q
               /\ IF j < NArea THEN pc' = "areas" /\ j' = j + 1
                               ELSE pc' = "endsweep"
        /\ (pc = "endsweep" /\ pc' = "areas") => j' = 1
      ]_vars

\* C4 witness: area 1 got a g with a NaN, its column is what was handed to gfn,
\* and the sweep is at area 2
C4_Witness ==
    /\ pc = "areas" /\ j = 2
    /\ g.kind = "vector" /\ AnyNan(g.g)
    /\ Col(Q, 1) = d

\* C5 (as claimed): when rake returns its failure sentinel None, qrake raises
\* no exception
C5_SentinelNoException ==
    (method = "raking" /\ g.kind = "None" /\ g.stop = "nan") => pc # "raised"

\* the d handed to gfn has no zero entry
ZeroFree(v) == \A i \in 1..Len(v) : v[i] # 0

\* C6: a vector returned by rake for a d without zero entries has no NaN and no
\* infinite entry, and whenever rake ends otherwise than by returning None
\* (from a d without NaN) its weight vector w1 has no NaN or infinite entry:
\* an update that produced one ended the call with None
C6_RakeNeverReturnsNanInf ==
    (method = "raking" /\ pc # "start") =>
        /\ (g.kind = "vector" /\ ZeroFree(d)) => ~AnyNan(g.g) /\ ~AnyInf(g.g)
        /\ (g.kind # "None" /\ ~AnyNan(d) /\ g.stop # "")
              => ~AnyNan(g.w1) /\ ~AnyInf(g.w1)
        /\ (g.stop = "nan") => (g.kind = "None" /\ (AnyNan(g.w1) \/ AnyInf(g.w1)))

\* C6 witness: an update overflowed for a d without zeros and rake returned None
C6_Witness ==
    /\ method = "raking" /\ g.kind = "None" /\ g.stop = "nan"
    /\ ZeroFree(d) /\ ~AnyNan(d)
    /\ AnyInf(g.w1)

\* C7 (as claimed): when rake stops at its convergence check, the vector it
\* returns is w1 / d for the w1 that satisfied the check
C7_ReturnsCheckedWeights ==
    (method = "raking" /\ g.kind = "vector" /\ g.stop = "converged") =>
        g.g = Vec([i \in 1..Len(d) |-> Div(g.w1[i], d[i])])

\* C8 (as claimed): a sweep that ended with an infinite row-sum deviation does
\* not end the loop while iter has not passed maxiter
C8_InfiniteForcesSweep ==
    (SweepDone /\ AnyInf(abswtdiff) /\ iter <= maxiter) => pc = "areas"

\* C9: max_targ_abspctdiff is the maximum of abspctdiff over exactly the cells
\* whose mask entry is True: NaN iff one of them is NaN, otherwise an upper
\* bound of all of them attained by one of them; dropped cells play no part
KeptCells == { ac \in (1..NArea) \X (1..NChar) : mask[ac[1]][ac[2]] }
DroppedCells == { ac \in (1..NArea) \X (1..NChar) : ~mask[ac[1]][ac[2]] }

C9_TargetMetricOverKeptCells ==
    (abspctdiff # <<>> /\ pc # "raised") =>
        IF \E ac \in KeptCells : IsNan(abspctdiff[ac[1]][ac[2]])
        THEN IsNan(max_targ_abspctdiff)
        ELSE /\ \A ac \in KeptCells : abspctdiff[ac[1]][ac[2]] <= max_targ_abspctdiff
             /\ \E ac \in KeptCells : abspctdiff[ac[1]][ac[2]] = max_targ_abspctdiff

\* C9 witness: a sweep ended with a dropped cell deviating more than the metric
C9_Witness ==
    /\ SweepDone
    /\ ~IsNan(max_targ_abspctdiff)
    /\ \E ac \in DroppedCells :
          /\ ~IsNan(abspctdiff[ac[1]][ac[2]])
          /\ abspctdiff[ac[1]][ac[2]] > max_targ_abspctdiff

\* the targets of another call that differ from targets in the values of the
\* dropped cells only: every dropped cell holds v
TargetsWithDropped(v) ==
    [a \in 1..NArea |-> [c \in 1..NChar |->
        IF mask[a][c] THEN targets[a][c] ELSE v]]

\* zero, a value away from every target, an infinite value and NaN
OtherValues == {0, 7 * One, PInf, NaN}

\* the area the last call of gfn was made for
LastArea ==
    IF pc = "areas" /\ j > 1 THEN j - 1
    ELSE IF pc = "raised" /\ g.kind # "vector" THEN j
    ELSE NArea

\* C11: dropped cells have no influence: what a run has done is what a run
\* whose targets differ in the dropped cells only would have done -- the last
\* call of gfn got the same targets and g is what gfn gives for them, the end
\* of a sweep found the same target metric, took the same decision of the
\* while condition and raised under the same condition -- so both runs make
\* the same sweeps and return the same Q
C11_DroppedCellsNoInfluence ==
    LET a  == LastArea
        Xs == Vec([i \in 1..NRec |-> Pick(xmat_wh[i], mask[a])])
    IN  /\ (g.stop # "" /\ method = "raking")
             => g = rake(Xs, d, Pick(targets[a], mask[a]))
        /\ (g.stop # "" /\ method = "raking-ec")
             => \E ompw \in SolverWeights(NRec) :
                   g = gec(Xs, d, Pick(targets[a], mask[a]), ompw)
        /\ \A v \in OtherValues :
              LET T2  == TargetsWithDropped(v)
                  sel == Masked(AbsPctDiffFor(Q, T2), mask)
              IN  /\ (g.stop # "") => Pick(T2[a], mask[a]) = Pick(targets[a], mask[a])
                  /\ SweepDone
                       => /\ sel # <<>>
                          /\ max_targ_abspctdiff = MaxSeq(sel)
                          /\ pc = IF LoopTest(max_weight_absdiff, MaxSeq(sel), iter)
                                  THEN "areas" ELSE "post"
                  /\ (pc = "raised" /\ g.kind = "vector" /\ abspctdiff # <<>>)
                       => sel = <<>>

\* C11 witness: a run with a dropped cell returned after two sweeps or more,
\* the dropped cell being off its target by more than the tolerance
C11_Witness ==
    /\ pc = "returned" /\ iter > 2
    /\ \E ac \in DroppedCells : Gt(abspctdiff[ac[1]][ac[2]], TOL_TARGPCTDIFF)
    /\ TargetsWithDropped(0) # targets

\* C12: no step of qrake changes an array of its caller: the starting matrix
\* (the sweeps write into a copy), wh, xmat and targets keep their values
C12_CallerArraysUnchanged ==
    [][ Q0' = Q0 /\ wh' = wh /\ xmat' = xmat /\ targets' = targets ]_vars

\* C12 witness: qrake returned a matrix other than the starting matrix, which
\* the caller still holds
C12_Witness ==
    /\ pc = "returned" /\ iter > 2
    /\ Q # Q0
    /\ ProperStart

\* the targets handed to the last call of gfn
LastTotal == Pick(targets[LastArea], mask[LastArea])

\* gec has returned for a column d of Q
GecDone == method = "raking-ec" /\ g.stop = "solver"

\* what the call of gec left behind is what the mean-space conversion gives
\* for the baseline weights b, for some weights of the solver
MeanSpaceFor(b) ==
    /\ g.call.baseline_weights = b
    /\ g.call.target_covariates = [c \in 1..Len(LastTotal) |-> Div(LastTotal[c], Sum(b))]
    /\ \E ompw \in SolverWeights(NRec) :
          g.g = [i \in 1..NRec |-> Div(Mul(ompw[i], Sum(b)), b[i])]

\* C15 (as claimed): gec hands the solver the target means total / sum(d) with
\* the baseline weights d, and returns g[i] = ompw[i] * sum(d) / d[i]
C15_MeanSpaceOfD ==
    GecDone => MeanSpaceFor(d)

\* C15 (amended): gec first replaces the zeros of d by SMALL_POSITIVE; with d2
\* the result, it hands the solver the target means total / sum(d2) with the
\* baseline weights d2, and returns g[i] = ompw[i] * sum(d2) / d2[i]
C15_MeanSpaceOfPositiveD ==
    GecDone => MeanSpaceFor([i \in 1..NRec |-> IF d[i] = 0 THEN SMALL_POSITIVE ELSE d[i]])

\* C15 witness: gec returned for a column with a zero share whose record the
\* solver gave the weight 0: g is 0 there
C15_Witness ==
    /\ GecDone
    /\ \E i \in 1..NRec : d[i] = 0 /\ g.g[i] = 0
    /\ \E i \in 1..NRec : d[i] # 0

\* C18 (as claimed): a call of the solver does not enable its autoscale option
C18_AutoscaleNotEnabled ==
    GecDone => g.call.autoscale = FALSE

\* C20: within a sweep the steps come in a fixed order. The areas are
\* calibrated one after the other, 1..NArea, and only then the sweep ends; at
\* the end of the sweep abswtdiff and max_weight_absdiff are taken from the row
\* sums of Q as the areas left it (before renormalization), Q is then
\* renormalized, max_targ_abspctdiff is taken from the renormalized Q, and the
\* test for another sweep uses that weight metric with that target metric
C20_SweepOrder ==
    [][ /\ (pc' = "endsweep") => (pc = "areas" /\ j = NArea)
        /\ (pc = "areas" /\ pc' = "areas") => (j < NArea /\ j' = j + 1)
        /\ (pc = "areas") =>
              /\ UNCHANGED <<abswtdiff, max_weight_absdiff, abspctdiff,
                             max_targ_abspctdiff, iter>>
              /\ \A i \in 1..NRec : \A a \in 1..NArea :
                    (a # j) => Q'[i][a] = Q[i][a]
        /\ (pc = "endsweep" /\ pc' # "raised") =>
              LET pre == [i \in 1..NRec |-> Abs(Sub(Sum(Q[i]), One))]
              IN  /\ abswtdiff' = pre
                  /\ max_weight_absdiff' =
                        IF AnyInf(pre) THEN TOL_WTDIFF ELSE MaxSeq(pre)
                  /\ \A i \in 1..NRec : \A a \in 1..NArea :
                        Q'[i][a] = Div(Q[i][a], Sum(Q[i]))
                  /\ abspctdiff' = AbsPctDiff(Q')
                  /\ max_targ_abspctdiff' = MaxSeq(Masked(abspctdiff', mask))
                  /\ iter' = iter + 1
                  /\ pc' \in {"areas", "post"}
                  /\ (pc' = "areas") =
                        LoopTest(max_weight_absdiff', max_targ_abspctdiff', iter')
      ]_vars

\* C20 witness: a sweep was completed whose renormalized Q meets both
\* tolerances (row sums and targets), and another sweep follows all the same,
\* because the weight metric is that of the row sums before renormalization
C20_Witness ==
    /\ SweepDone
    /\ pc = "areas"
    /\ Gt(max_weight_absdiff, TOL_WTDIFF)
    /\ Le(max_targ_abspctdiff, TOL_TARGPCTDIFF)
    /\ \A i \in 1..NRec : Le(Abs(Sub(Sum(Q[i]), One)), TOL_WTDIFF)

\* the step just taken was the calibration of area LastArea with a vector g:
\* d is column LastArea of Q as that step found it, and Q has not been
\* renormalized since
AreaApplied ==
    /\ pc = "endsweep" \/ (pc = "areas" /\ j > 1)
    /\ g.kind = "vector"

\* C21 (as claimed): a g with a zero entry is never multiplied into Q: the
\* identity is used for that area, so that its column is left as it was
C21_AnyZeroGivesIdentity ==
    (AreaApplied /\ \E i \in 1..Len(g.g) : g.g[i] = 0) =>
        Col(Q, LastArea) = d

\* C22: the calibration step of area j reads column j of Q and the inputs
\* only, and writes column j of Q only. What gfn is given is xmat_wh and
\* targets[j] at the kept cells and column j of Q; the step leaves every other
\* column of Q as it was, and the new column j is the old column j times the
\* adjustment (g, or the identity)
C22_AreaStepTouchesOwnColumn ==
    [][ (pc = "areas") =>
          LET col == Vec([i \in 1..NRec |-> Q[i][j]])
              Xs  == Vec([i \in 1..NRec |-> Pick(xmat_wh[i], mask[j])])
              tot == Pick(targets[j], mask[j])
          IN  /\ d' = col
              /\ (method = "raking") => g' = rake(Xs, col, tot)
              /\ (method = "raking-ec") =>
                    \E ompw \in SolverWeights(NRec) : g' = gec(Xs, col, tot, ompw)
              /\ \A i \in 1..NRec : \A a \in 1..NArea :
                    (a # j) => Q'[i][a] = Q[i][a]
              /\ (g'.kind = "vector") =>
                    \/ \A i \in 1..NRec : Q'[i][j] = Mul(col[i], g'.g[i])
                    \/ \A i \in 1..NRec : Q'[i][j] = col[i]
      ]_vars

\* C22 witness: in a later sweep, with several areas, the calibration of an
\* area has changed its column
C22_Witness ==
    /\ AreaApplied
    /\ iter >= 2
    /\ NArea >= 2
    /\ Col(Q, LastArea) # d
    /\ \E i \in 1..NRec : Sum(Q[i]) # One

\* C23 (as claimed): "Maximum number of iterations exceeded" is reported only
\* for a run that did not converge: never when the last sweep made ended with
\* max_weight_absdiff <= 0.0005 and max_targ_abspctdiff <= 0.1, that sweep being
\* sweep number maxiter included
C23_ExceededOnlyIfNotConverged ==
    [][ (pc = "post" /\ iter > 1 /\ exceeded') => ~WithinTol ]_vars

\* lines 298-306 for area a on a matrix S, gfn having returned ret: the new
\* column a
AdjustedColumn(S, a, ret) ==
    LET gv == IF NeedsIdentity(ret.g) THEN Ones(Len(ret.g)) ELSE ret.g
    IN  [i \in 1..NRec |-> Mul(S[i][a], gv[i])]

\* what gfn returns for area a when it is given column a of the matrix S;
\* ompw is what the solver hands back (raking-ec only)
AreaResult(S, a, ompw) ==
    LET Xs == Vec([i \in 1..NRec |-> Pick(xmat_wh[i], mask[a])])
        tot == Pick(targets[a], mask[a])
    IN  IF method = "raking" THEN rake(Xs, Col(S, a), tot)
        ELSE gec(Xs, Col(S, a), tot, ompw)

\* the areas of a sweep calibrated in the order given, every one of them from
\* the snapshot S of Q taken when the sweep began, the results collected in R
RECURSIVE SnapshotSweep(_, _, _, _)
SnapshotSweep(S, R, order, ompws) ==
    IF order = <<>> THEN R
    ELSE LET a == Head(order)
             col == AdjustedColumn(S, a, AreaResult(S, a, ompws[a]))
         IN  SnapshotSweep(S, [i \in 1..NRec |-> [R[i] EXCEPT ![a] = col[i]]],
                           Tail(order), ompws)

\* the orders in which the areas can be taken
AreaOrders == { o \in [1..NArea -> 1..NArea] : \A a, b \in 1..NArea : o[a] = o[b] => a = b }

\* C24: the areas of the first sweep calibrated one after the other on the
\* current Q give the Q that calibrating them from the snapshot of Q taken at
\* the start of the sweep (Q0, any matrix) gives, in whatever order they are
\* taken, the solver handing back the same weights; the rest of the sweep
\* (renormalization, metrics) is a function of that Q
C24_SequentialEqualsSnapshot ==
    (pc = "endsweep" /\ iter = 1) =>
        \E ompws \in [1..NArea -> IF method = "raking" THEN {<<>>} ELSE SolverWeights(NRec)] :
            \A o \in AreaOrders : Q = SnapshotSweep(Q0, Q0, o, ompws)

\* C24 witness: a first sweep over several areas in which the calibration
\* changed the columns of two areas
C24_Witness ==
    /\ pc = "endsweep"
    /\ iter = 1
    /\ \E a, b \in 1..NArea : a # b /\ Col(Q, a) # Col(Q0, a) /\ Col(Q, b) # Col(Q0, b)

\* C25 (as claimed): when the sweep loop is left with iter <= maxiter, the
\* metrics of the last sweep are numbers within tolerance (neither NaN nor
\* infinite, max_weight_absdiff <= 0.0005, max_targ_abspctdiff <= 0.1), and so
\* is the percent difference of every kept target cell
C25_EarlyExitWithinTol ==
    (SweepDone /\ pc = "post" /\ iter <= maxiter) =>
        /\ ~IsNan(max_weight_absdiff) /\ ~IsInf(max_weight_absdiff)
        /\ ~IsNan(max_targ_abspctdiff) /\ ~IsInf(max_targ_abspctdiff)
        /\ Le(max_weight_absdiff, TOL_WTDIFF)
        /\ Le(max_targ_abspctdiff, TOL_TARGPCTDIFF)
        /\ \A c \in 1..Len(Masked(abspctdiff, mask)) :
              Le(Masked(abspctdiff, mask)[c], TOL_TARGPCTDIFF)

\* C26 (as claimed): with maxiter >= 1 the loop is not left before one whole
\* sweep has been made (iter > 1 after it), whatever the starting Q; with
\* maxiter < 1 no sweep is made and qrake still returns: nothing is raised
C26_OneSweepUnlessNoCap ==
    /\ (maxiter >= 1 /\ pc \in {"post", "returned"}) => iter > 1
    /\ (maxiter < 1 /\ pc # "start") => (iter = 1 /\ pc \in {"post", "returned"})

\* C27: a share that is zero stays zero. The calibration of an area leaves a
\* zero entry of Q zero, and so does the renormalization that ends the sweep
\* when the sum of the row is a finite number other than zero; hence, row sums
\* staying finite and nonzero, a zero share is zero after the sweep, in every
\* later sweep and in the returned Q
C27_ZeroSharesStayZero ==
    [][ (pc \in {"areas", "endsweep", "post"}) =>
          \A i \in 1..NRec : \A a \in 1..NArea :
              ( /\ Q[i][a] = 0
                /\ (pc = "endsweep") =>
                      (~IsNan(Sum(Q[i])) /\ ~IsInf(Sum(Q[i])) /\ Sum(Q[i]) # 0) )
              => Q'[i][a] = 0
      ]_vars

\* C27 witness: qrake has returned after several sweeps that changed Q; a
\* share that was zero in the starting matrix, in a row with other shares, is
\* zero in the returned one, its area having been adjusted
C27_Witness ==
    /\ pc = "returned"
    /\ iter > 2
    /\ \E i \in 1..NRec : \E a \in 1..NArea :
          /\ Q0[i][a] = 0
          /\ Q[i][a] = 0
          /\ Sum(Q0[i]) # 0
          /\ Col(Q, a) # Col(Q0, a)

\* C28: with method 'raking' the calibration of an area whose column of Q
\* holds a zero leaves Q as it is (rake's g = w1 / d is 0/0 there, or rake has
\* stopped before computing it), and the renormalization leaves a zero share
\* zero or, the row summing to zero, undefined, which calibration does not
\* adjust either: so the area is adjusted in no later sweep, only
\* renormalization changes its column
C28_ZeroColumnNotCalibrated ==
    [][ /\ ( /\ pc = "areas"
             /\ method = "raking"
             /\ \E i \in 1..NRec : Q[i][j] = 0 \/ IsNan(Q[i][j]) )
           => Q' = Q
        /\ (pc = "endsweep" /\ method = "raking") =>
              \A i \in 1..NRec : \A a \in 1..NArea :
                  (Q[i][a] = 0 \/ IsNan(Q[i][a])) => (Q'[i][a] = 0 \/ IsNan(Q'[i][a]))
      ]_vars

\* C28 witness: in a later sweep rake was called for an area whose column of
\* Q holds a zero, returned a g with an undefined entry, and the column is as
\* it was, while another area has been adjusted since the start
C28_Witness ==
    /\ AreaApplied
    /\ method = "raking"
    /\ iter >= 2
    /\ \E i \in 1..NRec : d[i] = 0
    /\ AnyNan(g.g)
    /\ Col(Q, LastArea) = d
    /\ \E b \in 1..NArea : \E i \in 1..NRec :
          Q0[i][b] # 0 /\ Sum(Q0[i]) = One /\ Gt(Abs(Sub(Q[i][b], Q0[i][b])), NArea)

(***************************************************************************)
(* get_mask on its own: every shape up to MaxRows x MaxCols and every drop *)
(* mapping whose rows carry sequences of at most two columns               *)
(***************************************************************************)
MaxRows == 2
MaxCols == 3

ColSeqs(k) == {<<>>} \cup { <<c>> : c \in 1..k }
                     \cup { <<c1, c2>> : c1 \in 1..k, c2 \in 1..k }

DropMaps(m, k) ==
    {NoDrops} \cup
    UNION { { Drops(items) : items \in [rows -> ColSeqs(k)] } : rows \in SUBSET (1..m) }

MaskInit ==
    /\ \E m \in 1..MaxRows, k \in 1..MaxCols :
          /\ targets = [a \in 1..m |-> [c \in 1..k |-> One]]
          /\ drops \in DropMaps(m, k)
    /\ Q0 = <<>> /\ wh = <<>> /\ xmat = <<>> /\ method = "" /\ maxiter = 0
    /\ Q = <<>> /\ mask = <<>> /\ iter = 0 /\ j = 0 /\ d = <<>>
    /\ g = Ret("", <<>>, <<>>, "")
    /\ abswtdiff = <<>> /\ max_weight_absdiff = 0
    /\ abspctdiff = <<>> /\ max_targ_abspctdiff = 0
    /\ exceeded = FALSE
    /\ problem = <<>>
    /\ hessp = <<>>
    /\ pc = "mask_call"

\* mask = get_mask(targets, drops)
MaskCall ==
    /\ pc = "mask_call"
    /\ mask' = get_mask(NArea, NChar, drops)
    /\ pc' = "mask_done"
    /\ UNCHANGED <<inputs, Q, iter, j, d, g, abswtdiff, max_weight_absdiff,
                   abspctdiff, max_targ_abspctdiff, exceeded>>

MaskNext == MaskCall

MaskSpec == MaskInit /\ [][MaskNext]_vars

\* column c is listed for row a in the drop mapping
Listed(a, c) ==
    /\ ~drops.isNone
    /\ a \in DOMAIN drops.items
    /\ \E t \in 1..Len(drops.items[a]) : drops.items[a][t] = c

\* C10: the mask has the shape of targets and is False exactly at the cells
\* (row, c) with c in drops[row], True everywhere else; all True when drops is
\* None or empty
C10_MaskFalseExactlyAtDrops ==
    (pc = "mask_done") =>
        /\ Len(mask) = NArea
        /\ \A a \in 1..NArea :
              /\ Len(mask[a]) = NChar
              /\ \A c \in 1..NChar : mask[a][c] = ~Listed(a, c)

\* C10 witness: a mask built from a mapping with a one-element sequence and a
\* two-element sequence, False at those cells and True elsewhere
C10_Witness ==
    /\ pc = "mask_done"
    /\ NArea = 2 /\ NChar = 3
    /\ drops = Drops((1 :> <<2>>) @@ (2 :> <<1, 3>>))
    /\ mask = << <<TRUE, FALSE, TRUE>>, <<FALSE, TRUE, FALSE>> >>

(***************************************************************************)
(* rake on its own: up to MaxRecs records with one characteristic          *)
(***************************************************************************)
MaxRecs == 3

\* the values of the characteristic, of the initial weights and of the target
RakeXValues == { <<One>>, <<2 * One>> }
RakeDValues == { Half, One }
RakeTotals == { 0, One, 3 * One, 6 * One, 400 * One }

\* the call rake(Xs, d, total) with Xs = xmat, total = targets[1]
RakeInit ==
    /\ \E n \in 1..MaxRecs :
          /\ xmat \in [1..n -> RakeXValues]
          /\ d \in [1..n -> RakeDValues]
    /\ \E t \in RakeTotals : targets = << <<t>> >>
    /\ Q0 = <<>> /\ wh = <<>> /\ drops = NoDrops /\ method = "raking"
    /\ maxiter = 0
    /\ Q = <<>> /\ mask = <<>> /\ iter = 0 /\ j = 0
    /\ g = Ret("", <<>>, <<>>, "")
    /\ abswtdiff = <<>> /\ max_weight_absdiff = 0
    /\ abspctdiff = <<>> /\ max_targ_abspctdiff = 0
    /\ exceeded = FALSE
    /\ problem = <<>>
    /\ hessp = <<>>
    /\ pc = "rake_call"

RakeCall ==
    /\ pc = "rake_call"
    /\ g' = rake(xmat, d, targets[1])
    /\ pc' = "rake_done"
    /\ UNCHANGED <<inputs, Q, mask, iter, j, d, abswtdiff, max_weight_absdiff,
                   abspctdiff, max_targ_abspctdiff, exceeded>>

RakeNext == RakeCall

RakeSpec == RakeInit /\ [][RakeNext]_vars

\* the call rake(X = [[1],[1],[1]], d = [1,1,1], total = [6]) has returned
ToyCaseDone ==
    /\ pc = "rake_done"
    /\ xmat = << <<One>>, <<One>>, <<One>> >>
    /\ d = <<One, One, One>>
    /\ targets = << <<6 * One>> >>

\* C13 (as claimed): for X = [[1],[1],[1]], d = [1,1,1], total = [6] rake
\* returns a vector g with sum_i d[i]*g[i]*X[i] equal to 6 and every g[i] equal
\* to 2, up to the deviation that the rounding of the format forces on a
\* converged result (what the convergence check lets pass; one unit per entry)
C13_ToyCaseReproducesTotal ==
    ToyCaseDone =>
        /\ g.kind = "vector"
        /\ BelowEPS1(Div(Abs(Sub(Sum([i \in 1..3 |->
                        Mul(Mul(d[i], g.g[i]), xmat[i][1])]), 6 * One)), 6 * One))
        /\ \A i \in 1..3 : Le(Abs(Sub(g.g[i], 2 * One)), 1)

\* a call of rake whose range(max_iter) ran out: no convergence check passed
\* and no weight was NaN or infinite
RakeExhausted == pc = "rake_done" /\ g.stop = "exhausted"

\* C19 (as claimed): a call of rake that performs all max_iter iterations
\* without passing the convergence check, and without NaN or infinite weights,
\* returns the failure sentinel None, not an adjustment vector
C19_ExhaustedReturnsNone ==
    RakeExhausted => g.kind = "None"

(***************************************************************************)
(* The call of qrake: the binding of the keyword parameter maxiter         *)
(***************************************************************************)
\* the value of maxiter in a call that does not supply it
NotSupplied == 0 - 1

\* def qrake(..., method='raking', maxiter=200, ...)
DefaultMaxiter == 200

CallInit ==
    /\ wh \in WhSet
    /\ xmat \in XmatSet
    /\ targets \in TargetsSet
    /\ Q0 \in QSet
    /\ drops = NoDrops
    /\ method \in {"raking", "raking-ec"}
    /\ maxiter \in {NotSupplied} \cup (0..MaxIter)
    /\ Q = <<>> /\ mask = <<>> /\ iter = 0 /\ j = 0 /\ d = <<>>
    /\ g = Ret("", <<>>, <<>>, "")
    /\ abswtdiff = <<>> /\ max_weight_absdiff = 0
    /\ abspctdiff = <<>> /\ max_targ_abspctdiff = 0
    /\ exceeded = FALSE
    /\ problem = <<>>
    /\ hessp = <<>>
    /\ pc = "call"

\* the parameters are bound: a parameter that was not supplied gets its default
BindParameters ==
    /\ pc = "call"
    /\ maxiter' = IF maxiter = NotSupplied THEN DefaultMaxiter ELSE maxiter
    /\ pc' = "start"
    /\ UNCHANGED <<Q0, wh, xmat, targets, drops, method, problem, hessp, Q, mask, iter,
                   j, d, g, abswtdiff, max_weight_absdiff, abspctdiff,
                   max_targ_abspctdiff, exceeded>>

CallNext == BindParameters

CallSpec == CallInit /\ [][CallNext]_vars

\* C16 (as claimed): a call that does not supply maxiter runs with a cap of 200
\* sweeps for method 'raking' and of 50 sweeps for method 'raking-ec'
C16_DefaultCapByMethod ==
    [][ (pc = "call" /\ maxiter = NotSupplied)
          => maxiter' = IF method = "raking" THEN 200 ELSE 50 ]_vars

(***************************************************************************)
(* make_test_problems.Problem.  Amounts are written in hundreds (xmean is  *)
(* 1 + 0.2 c, whs is 0.1 + 0.1 (1 + r)) so that the weighted sums stay     *)
(* within the range of the number format.  An array is a record of its     *)
(* shape and its entries.                                                  *)
(***************************************************************************)
MaxH == 2
MaxS == 2
MaxK == 2
MaxSeed == 3

Arr(shape, data) == [shape |-> shape, data |-> data]

\* the draws of np.random.normal(0, sd, ...), in percent: entry (i, c) of the
\* sample with the given seed
NoisePct == <<0, 5, 0 - 5, 0 - 95>>
Noise(sd, i, c) == NoisePct[((sd + 3 * i + 5 * c + sd * i) % 4) + 1]

\* base * (1 + r) for r given in percent
TimesOnePlus(base, pct) == RDiv(base * (100 + pct), 100)

\* (faulty variant of RowTotals: the sum taken along the other axis)
ColumnTotals(M) == Arr(<<Len(M[1])>>, Vec([a \in 1..Len(M[1]) |-> Sum(Col(M, a))]))

\* M.sum(axis=1)
RowTotals(M) == Arr(<<Len(M)>>, Vec([i \in 1..Len(M) |-> Sum(M[i])]))

\* Problem.__init__(self, h, s, k) for the samples with seeds sx and sw
Problem(h, s, k, sx, sw) ==
    LET xm  == Vec([i \in 1..h |-> Vec([c \in 1..k |->
                  TimesOnePlus(One + (c - 1) * (One \div 5), Noise(sx, i, c))])])
        \* r[r < -.9] = -.9
        rw  == [i \in 1..h |-> [a \in 1..s |->
                  IF Noise(sw, i, a) < 0 - 90 THEN 0 - 90 ELSE Noise(sw, i, a)]]
        whs == Vec([i \in 1..h |-> Vec([a \in 1..s |->
                  Add(One \div 10, TimesOnePlus(One \div 10, rw[i][a]))])])
        geo == Vec([a \in 1..s |-> Vec([c \in 1..k |->
                  Dot(Col(whs, a), Col(xm, c))])])
    IN  [h |-> h, s |-> s, k |-> k,
         xmat |-> Arr(<<h, k>>, xm),
         whs |-> Arr(<<h, s>>, whs),
         wh |-> RowTotals(whs),
         ws |-> Arr(<<s>>, Vec([a \in 1..s |-> Sum(Col(whs, a))])),
         geotargets |-> Arr(<<s, k>>, geo),
         targets |-> Arr(<<k>>, Vec([c \in 1..k |-> Sum(Col(geo, c))]))]

\* the call Problem(h, s, k): the arguments are kept in problem until the
\* object is made
ProblemInit ==
    /\ \E h \in 1..MaxH, s \in 1..MaxS, k \in 1..MaxK, sx \in 0..MaxSeed, sw \in 0..MaxSeed :
          problem = [h |-> h, s |-> s, k |-> k, sx |-> sx, sw |-> sw]
    /\ Q0 = <<>> /\ wh = <<>> /\ xmat = <<>> /\ targets = <<>>
    /\ drops = NoDrops /\ method = "" /\ maxiter = 0
    /\ Q = <<>> /\ mask = <<>> /\ iter = 0 /\ j = 0 /\ d = <<>>
    /\ g = Ret("", <<>>, <<>>, "")
    /\ abswtdiff = <<>> /\ max_weight_absdiff = 0
    /\ abspctdiff = <<>> /\ max_targ_abspctdiff = 0
    /\ exceeded = FALSE
    /\ hessp = <<>>
    /\ pc = "problem_call"

MakeProblem ==
    /\ pc = "problem_call"
    /\ problem' = Problem(problem.h, problem.s, problem.k, problem.sx, problem.sw)
    /\ pc' = "problem_made"
    /\ UNCHANGED <<Q0, wh, xmat, targets, drops, method, maxiter, Q, mask, iter,
                   j, d, g, abswtdiff, max_weight_absdiff, abspctdiff,
                   max_targ_abspctdiff, exceeded, hessp>>

ProblemNext == MakeProblem

ProblemSpec == ProblemInit /\ [][ProblemNext]_vars

\* C17 (as claimed): the targets attribute of a Problem(h, s, k) object is an
\* s x k matrix, one row per area and one column per characteristic
C17_TargetsIsAreaByChar ==
    (pc = "problem_made") => problem.targets.shape = <<problem.s, problem.k>>

\* C29: every Problem(h, s, k) is feasible by construction: wh is a vector of
\* h positive weights with wh[i] the sum over the areas of whs[i, .], and
\* geotargets is s x k with geotargets[a, c] the sum over the records of
\* whs[i, a] * xmat[i, c]; so the shares whs[i, a] / wh[i] are defined, sum to 1
\* in every row and, multiplied by wh, give the weights whs that geotargets
\* were computed from
C29_ProblemIsFeasible ==
    (pc = "problem_made") =>
        LET p == problem
        IN  /\ p.wh.shape = <<p.h>>
            /\ p.whs.shape = <<p.h, p.s>>
            /\ p.geotargets.shape = <<p.s, p.k>>
            /\ \A i \in 1..p.h :
                  /\ p.wh.data[i] = Sum([a \in 1..p.s |-> p.whs.data[i][a]])
                  /\ p.wh.data[i] > 0 /\ IsFinite(p.wh.data[i])
                  /\ \A a \in 1..p.s : p.whs.data[i][a] > 0
            /\ \A a \in 1..p.s : \A c \in 1..p.k :
                  p.geotargets.data[a][c] =
                      Sum([i \in 1..p.h |-> Mul(p.whs.data[i][a], p.xmat.data[i][c])])

\* C29 witness: a problem with several records, areas and characteristics has
\* been made, whose weights differ between areas and between records
C29_Witness ==
    /\ pc = "problem_made"
    /\ problem.h >= 2 /\ problem.s >= 2 /\ problem.k >= 2
    /\ problem.whs.data[1][1] # problem.whs.data[1][2]
    /\ problem.whs.data[1] # problem.whs.data[2]
    /\ problem.xmat.data[1] # problem.xmat.data[2]

(***************************************************************************)
(* puf_geoweight.hesspfn.  The numbers here are exact: x, the gradients and *)
(* Hp are written in hundredths (r = .01 is one hundredth), the entries of  *)
(* p, xmat, targets and diff_weights are whole numbers.                     *)
(***************************************************************************)
\* 1 / r for r = .01
RInv == 100

\* x.reshape((xmat.shape[0], targets.shape[0])): entry (i, a) of whs
Reshape(x, s, i, a) == x[(i - 1) * s + a]

\* gfun(x, xmat, targets, objscale, diff_weights), x and the result in
\* hundredths; the result is the flattened h x s matrix grad
gfun(x, xm, tg, dw) ==
    LET h == Len(xm)
        s == Len(tg)
        k == Len(tg[1])
        \* diffs = np.dot(whs.T, xmat) - targets
        diffs == [a \in 1..s |-> [c \in 1..k |->
                    Sum([i \in 1..h |-> Reshape(x, s, i, a) * xm[i][c]]) - RInv * tg[a][c]]]
        \* diffs_weighted2 = diffs * np.square(diff_weights)
        dw2 == [a \in 1..s |-> [c \in 1..k |-> diffs[a][c] * dw[a][c] * dw[a][c]]]
    IN  \* grad = 2 * xmat.dot(diffs_weighted2.T), flattened
        [n \in 1..(h * s) |->
            LET i == ((n - 1) \div s) + 1
                a == ((n - 1) % s) + 1
            IN  2 * Sum([c \in 1..k |-> xm[i][c] * dw2[a][c]])]

\* x + r*p and x - r*p, in hundredths
XPlusRP(x, p) == [n \in 1..Len(x) |-> x[n] + p[n]]
XMinusRP(x, p) == [n \in 1..Len(x) |-> x[n] - p[n]]

\* hesspfn(x, p, xmat, targets, objscale, diff_weights)
hesspfn(x, p, xm, tg, dw) ==
    LET g1 == gfun(XPlusRP(x, p), xm, tg, dw)
        g2 == gfun(XMinusRP(x, p), xm, tg, dw)
    IN  \* Hp = (g1 + g2) / (2 * r)
        [n \in 1..Len(x) |-> ((g1[n] + g2[n]) * RInv) \div 2]

\* the arguments of the calls: x and p of several shapes, with zero and
\* negative entries
XBases == {0, 100, 250}
XSlopes == {0, 50}
PShapes == {0, 1}
Factors == {1, 2}

HesspInit ==
    /\ \E h \in 1..MaxH, s \in 1..MaxS, k \in 1..MaxK,
          xb \in XBases, xs \in XSlopes, ps \in PShapes, m \in 1..(MaxH * MaxS),
          fx \in Factors, ft \in Factors, fd \in Factors :
          /\ m <= h * s
          /\ hessp = [x |-> [n \in 1..(h * s) |-> xb + n * xs],
                      p |-> [n \in 1..(h * s) |->
                                IF ps = 0 THEN (IF n = m THEN 1 ELSE 0)
                                ELSE (IF n = m THEN 0 - 2 ELSE 1)],
                      xmat |-> [i \in 1..h |-> [c \in 1..k |-> fx * (i + c - 1)]],
                      targets |-> [a \in 1..s |-> [c \in 1..k |-> ft * (a + c)]],
                      diff_weights |-> [a \in 1..s |-> [c \in 1..k |-> fd]]]
    /\ problem = <<>>
    /\ Q0 = <<>> /\ wh = <<>> /\ xmat = <<>> /\ targets = <<>>
    /\ drops = NoDrops /\ method = "" /\ maxiter = 0
    /\ Q = <<>> /\ mask = <<>> /\ iter = 0 /\ j = 0 /\ d = <<>>
    /\ g = Ret("", <<>>, <<>>, "")
    /\ abswtdiff = <<>> /\ max_weight_absdiff = 0
    /\ abspctdiff = <<>> /\ max_targ_abspctdiff = 0
    /\ exceeded = FALSE
    /\ pc = "hesspfn_call"

CallHesspfn ==
    /\ pc = "hesspfn_call"
    /\ hessp' = hessp @@ [Hp |-> hesspfn(hessp.x, hessp.p, hessp.xmat,
                                         hessp.targets, hessp.diff_weights)]
    /\ pc' = "hesspfn_done"
    /\ UNCHANGED <<Q0, wh, xmat, targets, drops, method, maxiter, problem, Q, mask,
                   iter, j, d, g, abswtdiff, max_weight_absdiff, abspctdiff,
                   max_targ_abspctdiff, exceeded>>

HesspNext == CallHesspfn

HesspSpec == HesspInit /\ [][HesspNext]_vars

\* C30 (as claimed): hesspfn returns the central difference of the gradient,
\* (gfun(x + r*p) - gfun(x - r*p)) / (2*r) with r = .01, for every x and p
C30_HesspIsCentralDifference ==
    (pc = "hesspfn_done") =>
        LET g1 == gfun(XPlusRP(hessp.x, hessp.p), hessp.xmat, hessp.targets,
                       hessp.diff_weights)
            g2 == gfun(XMinusRP(hessp.x, hessp.p), hessp.xmat, hessp.targets,
                       hessp.diff_weights)
        IN  \A n \in 1..Len(hessp.x) :
                hessp.Hp[n] = ((g1[n] - g2[n]) * RInv) \div 2

====
